---- MODULE Spec2Model ----
(***************************************************************************)
(* A model of the repository analyser: the file classifier, the file       *)
(* selector/reducer (src/src/github_client.py), the two-stage LLM          *)
(* orchestration of OpenAIAnalyzer and OllamaAnalyzer                      *)
(* (src/src/openai_client.py, src/src/ollama_client.py) and RepoAnalyzer   *)
(* (src/src/analyzer.py).                                                  *)
(*                                                                         *)
(* Python strings are TLA+ strings; str methods (lower, strip, startswith, *)
(* in, count, split, slicing) are computed character by character.         *)
(* JSON values are tagged records: [null |-> TRUE], [num |-> n],           *)
(* [str |-> s], [list |-> <<...>>], [obj |-> [key |-> value, ...]].        *)
(* Floating point scores are kept in hundredths (0.5 is 50).               *)
(***************************************************************************)
EXTENDS Integers, Sequences, FiniteSets, TLC

VARIABLES
    pc,               \* position of the running operation
    code_files,       \* List[CodeFile]: argument of select/analyze, result of the walk
    max_files,        \* select_important_files: max_files
    important_files,  \* select_important_files: the returned list
    file,             \* extract_key_content: the CodeFile argument
    lines,            \* extract_key_content: lines
    line_no,          \* extract_key_content: index of the next line of `lines`
    meaningful_lines, \* extract_key_content: meaningful_lines
    key_content,      \* extract_key_content: the returned string
    repo_path,        \* analyze_local_repo: repo_path, as the parts of the path
    max_file_size,    \* analyze_local_repo: max_file_size
    tree,             \* the paths repo_path.rglob('*') yields
    visited,          \* the paths of `tree` the loop has been through
    analyzer,         \* the class whose analyze_repository runs
    repo_url,         \* analyze_repository: repo_url
    summaries,        \* summarize_large_files: summaries
    requests,         \* the requests issued so far, oldest first
    stage1_reply,     \* what the provider answered to the stage 1 request
    stage2_reply,     \* what the provider answered to the stage 2 request
    stage1_data,      \* analyze_repository: stage1_data
    stage2_data,      \* analyze_repository: stage2_data
    detailed_context, \* analyze_repository: the files put into the stage 2 prompt
    result,           \* the RepositoryAnalysis returned, or NoValue
    exception,        \* the exception the operation ended with, "" when none
    llm_provider,     \* settings.llm_provider
    provider_arg,     \* the positional arguments RepoAnalyzer is constructed with
    temp_dir          \* the scratch directory of RepoAnalyzer.analyze_repository

vars == <<pc, code_files, max_files, important_files, file, lines, line_no,
          meaningful_lines, key_content, repo_path, max_file_size, tree,
          visited, analyzer, repo_url, summaries, requests, stage1_reply,
          stage2_reply, stage1_data, stage2_data, detailed_context, result,
          exception, llm_provider, provider_arg, temp_dir>>

selectVars  == <<max_files, important_files>>
extractVars == <<file, lines, line_no, meaningful_lines, key_content>>
walkVars    == <<repo_path, max_file_size, tree, visited>>
llmVars     == <<analyzer, repo_url, summaries, requests, stage1_reply,
                 stage2_reply, stage1_data, stage2_data, detailed_context,
                 result, exception>>
repoVars    == <<llm_provider, provider_arg, temp_dir>>

NoValue == [none |-> TRUE]

(***************************************************************************)
(* Python str operations                                                   *)
(***************************************************************************)

\* s[i:] for a 1-based i
Drop(s, i) == SubSeq(s, i, Len(s))

\* t in s
Contains(s, t) ==
    \E i \in 1..(Len(s) - Len(t) + 1) : SubSeq(s, i, i + Len(t) - 1) = t

\* s.startswith(t)
StartsWith(s, t) == Len(s) >= Len(t) /\ SubSeq(s, 1, Len(t)) = t

\* s.count(c) for a single character c
Count(s, c) == Cardinality({i \in 1..Len(s) : SubSeq(s, i, i) = c})

UpperCase == "ABCDEFGHIJKLMNOPQRSTUVWXYZ"
LowerCase == "abcdefghijklmnopqrstuvwxyz"

LowerChar(c) ==
    IF \E i \in 1..Len(UpperCase) : SubSeq(UpperCase, i, i) = c
    THEN LET i == CHOOSE j \in 1..Len(UpperCase) : SubSeq(UpperCase, j, j) = c
         IN  SubSeq(LowerCase, i, i)
    ELSE c

\* s.lower()
RECURSIVE Lower(_)
Lower(s) == IF s = "" THEN "" ELSE LowerChar(SubSeq(s, 1, 1)) \o Lower(Drop(s, 2))

IsSpace(c) == c \in {" ", "\t", "\r", "\n"}

RECURSIVE LStrip(_)
LStrip(s) == IF s # "" /\ IsSpace(SubSeq(s, 1, 1)) THEN LStrip(Drop(s, 2)) ELSE s

RECURSIVE RStrip(_)
RStrip(s) ==
    IF s # "" /\ IsSpace(SubSeq(s, Len(s), Len(s)))
    THEN RStrip(SubSeq(s, 1, Len(s) - 1))
    ELSE s

\* s.strip()
Strip(s) == RStrip(LStrip(s))

\* position of the first '\n' of s, 0 when there is none
FirstNewline(s) ==
    IF \E i \in 1..Len(s) : SubSeq(s, i, i) = "\n"
    THEN CHOOSE i \in 1..Len(s) :
            /\ SubSeq(s, i, i) = "\n"
            /\ \A j \in 1..(i - 1) : SubSeq(s, j, j) # "\n"
    ELSE 0

\* s.split('\n')
RECURSIVE SplitLines(_)
SplitLines(s) ==
    LET i == FirstNewline(s)
    IN  IF i = 0 THEN <<s>>
        ELSE <<SubSeq(s, 1, i - 1)>> \o SplitLines(Drop(s, i + 1))

Digits == "0123456789"

\* str(n) for n >= 0
RECURSIVE ToStr(_)
ToStr(n) ==
    IF n < 10 THEN SubSeq(Digits, n + 1, n + 1)
    ELSE ToStr(n \div 10) \o SubSeq(Digits, (n % 10) + 1, (n % 10) + 1)

\* '\n'.join(ls)
RECURSIVE JoinLines(_)
JoinLines(ls) ==
    IF ls = <<>> THEN ""
    ELSE IF Len(ls) = 1 THEN ls[1]
    ELSE ls[1] \o "\n" \o JoinLines(Tail(ls))

(***************************************************************************)
(* src/src/models.py                                                       *)
(***************************************************************************)

FileType == {"source_code", "documentation", "configuration", "test", "asset"}

CodeFile(path, content, language, size, file_type) ==
    [path |-> path, content |-> content, language |-> language,
     size |-> size, file_type |-> file_type]

(***************************************************************************)
(* GitHubClient.select_important_files                                     *)
(***************************************************************************)

HighPriorityNames == {"main.py", "app.py", "__init__.py", "index.js", "index.ts"}
ConfigExts == {".json", ".yaml", ".yml", ".toml", ".config"}

HighPriorityBonus == 100
ConfigBonus == 50
CoreBonus == 30
LargeBonus == 20
SourceBonus == 10
LargeSize == 1000

get_priority_score(f) ==
    LET filename == Lower(f.path)
    IN  (IF \E name \in HighPriorityNames : Contains(filename, name)
         THEN HighPriorityBonus ELSE 0)
      + (IF \E ext \in ConfigExts : Contains(filename, ext)
         THEN ConfigBonus ELSE 0)
      + (IF ~Contains(f.path, "/") \/ Count(f.path, "/") <= 1
         THEN CoreBonus ELSE 0)
      + (IF f.size > LargeSize THEN LargeBonus ELSE 0)
      + (IF f.file_type = "source_code" THEN SourceBonus ELSE 0)

\* InsertDesc as an ascending sort read backwards would place x: before the
\* elements of equal key
RECURSIVE InsertDescUnstable(_, _)
InsertDescUnstable(x, sorted) ==
    IF sorted = <<>> THEN <<x>>
    ELSE IF get_priority_score(Head(sorted)) > get_priority_score(x)
         THEN <<Head(sorted)>> \o InsertDescUnstable(x, Tail(sorted))
         ELSE <<x>> \o sorted

\* the place of x in a list already sorted by descending key: after every
\* element whose key is not smaller (sorted(..., reverse=True) is stable)
RECURSIVE InsertDesc(_, _)
InsertDesc(x, sorted) ==
    IF sorted = <<>> THEN <<x>>
    ELSE IF get_priority_score(Head(sorted)) >= get_priority_score(x)
         THEN <<Head(sorted)>> \o InsertDesc(x, Tail(sorted))
         ELSE <<x>> \o sorted

\* sorted(fs, key=get_priority_score, reverse=True)
RECURSIVE SortedByPriority(_)
SortedByPriority(fs) ==
    IF fs = <<>> THEN <<>>
    ELSE InsertDesc(fs[Len(fs)], SortedByPriority(SubSeq(fs, 1, Len(fs) - 1)))

\* Take with the slice one element too long
TakeOneMore(xs, n) == SubSeq(xs, 1, IF n + 1 < Len(xs) THEN n + 1 ELSE Len(xs))

\* xs[:n] for n >= 0
Take(xs, n) == SubSeq(xs, 1, IF n < Len(xs) THEN n ELSE Len(xs))

select_important_files(fs, n) ==
    IF fs = <<>> THEN <<>> ELSE Take(SortedByPriority(fs), n)

(***************************************************************************)
(* GitHubClient.extract_key_content                                        *)
(***************************************************************************)

KeyLineLimit == 50

\* the single-line comment patterns
IsCommentLine(stripped) ==
    \/ StartsWith(stripped, "#")
    \/ StartsWith(stripped, "//")
    \/ StartsWith(stripped, "/*")
    \/ StartsWith(stripped, "*")
    \/ StartsWith(stripped, "*/")
    \/ StartsWith(stripped, "<!--")

\* IsImportLine with `and` binding no tighter than `or`
IsImportLineLeftToRight(stripped) ==
    \/ /\ \/ StartsWith(stripped, "import ")
          \/ StartsWith(stripped, "from ")
          \/ StartsWith(stripped, "require(")
          \/ StartsWith(stripped, "const ")
       /\ Contains(stripped, "require(")
    \/ StartsWith(stripped, "import{")
    \/ StartsWith(stripped, "import {")

\* the import/require patterns; Python's `and` binds tighter than `or`
IsImportLine(stripped) ==
    \/ StartsWith(stripped, "import ")
    \/ StartsWith(stripped, "from ")
    \/ StartsWith(stripped, "require(")
    \/ (StartsWith(stripped, "const ") /\ Contains(stripped, "require("))
    \/ StartsWith(stripped, "import{")
    \/ StartsWith(stripped, "import {")

\* the three `continue` tests of the loop body
IsSkippedLine(line) ==
    LET stripped == Strip(line)
    IN  stripped = "" \/ IsCommentLine(stripped) \/ IsImportLine(stripped)

(***************************************************************************)
(* GitHubClient.analyze_local_repo                                         *)
(***************************************************************************)

extension_map ==
    (".py"   :> <<"python", "source_code">>) @@
    (".js"   :> <<"javascript", "source_code">>) @@
    (".ts"   :> <<"typescript", "source_code">>) @@
    (".jsx"  :> <<"javascript", "source_code">>) @@
    (".tsx"  :> <<"typescript", "source_code">>) @@
    (".java" :> <<"java", "source_code">>) @@
    (".cpp"  :> <<"cpp", "source_code">>) @@
    (".c"    :> <<"c", "source_code">>) @@
    (".go"   :> <<"go", "source_code">>) @@
    (".rs"   :> <<"rust", "source_code">>) @@
    (".rb"   :> <<"ruby", "source_code">>) @@
    (".php"  :> <<"php", "source_code">>) @@
    (".md"   :> <<"markdown", "documentation">>) @@
    (".txt"  :> <<"text", "documentation">>) @@
    (".json" :> <<"json", "configuration">>) @@
    (".yaml" :> <<"yaml", "configuration">>) @@
    (".yml"  :> <<"yaml", "configuration">>) @@
    (".toml" :> <<"toml", "configuration">>)

skip_dirs == {".git", "node_modules", "__pycache__", ".venv", "venv", "dist", "build"}

\* name.rfind('.') as a 1-based position, 0 when there is no dot
LastDot(name) ==
    IF \E i \in 1..Len(name) : SubSeq(name, i, i) = "."
    THEN CHOOSE i \in 1..Len(name) :
            /\ SubSeq(name, i, i) = "."
            /\ \A j \in (i + 1)..Len(name) : SubSeq(name, j, j) # "."
    ELSE 0

\* pathlib's PurePath.suffix of a path whose final component is name
Suffix(name) ==
    LET i == LastDot(name)
    IN  IF 1 < i /\ i < Len(name) THEN Drop(name, i) ELSE ""

\* PurePath.name of a path given by its parts
Name(parts) == parts[Len(parts)]

\* str(path) of a relative path given by its parts
RECURSIVE PathStr(_)
PathStr(parts) ==
    IF Len(parts) = 1 THEN parts[1]
    ELSE parts[1] \o "/" \o PathStr(Tail(parts))

\* file_path.parts of an entry of the tree: repo_path's parts, then its own
FullParts(rp, entry) == rp \o entry.parts

\* any(skip_dir in file_path.parts for skip_dir in skip_dirs)
InSkippedDir(parts) == \E skip_dir \in skip_dirs : \E i \in 1..Len(parts) : parts[i] = skip_dir

\* the condition of the `if` that selects a path of the walk
PassesFilter(rp, entry, limit) ==
    /\ entry.is_file
    /\ Suffix(Name(entry.parts)) \in DOMAIN extension_map
    /\ ~InSkippedDir(FullParts(rp, entry))
    /\ entry.st_size <= limit

\* the test-file rule without the lower-casing of the name
IsTestNameCaseSensitive(name) == Contains(name, "test") \/ Contains(name, "spec")

\* 'test' in file_path.name.lower() or 'spec' in file_path.name.lower()
IsTestName(name) == Contains(Lower(name), "test") \/ Contains(Lower(name), "spec")

\* the CodeFile appended for an entry that passed the filter and was read
MakeCodeFile(entry) ==
    LET name == Name(entry.parts)
        language == extension_map[Suffix(name)][1]
        file_type == IF IsTestName(name) THEN "test" ELSE extension_map[Suffix(name)][2]
    IN  CodeFile(PathStr(entry.parts), entry.content, language,
                 Len(entry.content), file_type)

\* the loop of extract_key_content as a function of the remaining lines and
\* of the lines kept so far
RECURSIVE KeepLines(_, _)
KeepLines(ls, kept) ==
    IF ls = <<>> \/ Len(kept) >= KeyLineLimit THEN kept
    ELSE IF IsSkippedLine(Head(ls)) THEN KeepLines(Tail(ls), kept)
    ELSE KeepLines(Tail(ls), Append(kept, Head(ls)))

extract_key_content(f) == JoinLines(KeepLines(SplitLines(f.content), <<>>))

(***************************************************************************)
(* JSON values and json.loads                                              *)
(*                                                                         *)
(* An object is the list of its <<key, value>> members in the order of     *)
(* the text. A number n stands for n/100.                                  *)
(***************************************************************************)

JNull      == [null |-> TRUE]
JNum(n)    == [num |-> n]
JStr(s)    == [str |-> s]
JList(xs)  == [list |-> xs]
JObj(ms)   == [obj |-> ms]

IsNull(v) == DOMAIN v = {"null"}
IsNum(v)  == DOMAIN v = {"num"}
IsStr(v)  == DOMAIN v = {"str"}
IsList(v) == DOMAIN v = {"list"}
IsObj(v)  == DOMAIN v = {"obj"}

\* key in d, for a dict d
HasKey(d, key) == \E i \in 1..Len(d.obj) : d.obj[i][1] = key

\* d.get(key, default), for a dict d (of a repeated key json.loads keeps the last)
Get(d, key, default) ==
    IF HasKey(d, key)
    THEN LET i == CHOOSE j \in 1..Len(d.obj) :
                    /\ d.obj[j][1] = key
                    /\ \A k \in (j + 1)..Len(d.obj) : d.obj[k][1] # key
         IN  d.obj[i][2]
    ELSE default

\* the text of the number n/100
NumStr(n) ==
    ToStr(n \div 100) \o "." \o ToStr((n % 100) \div 10) \o ToStr(n % 10)

\* the JSON text of a value (json.dumps)
RECURSIVE Dumps(_)
RECURSIVE DumpsItems(_)
RECURSIVE DumpsMembers(_)
Dumps(v) ==
    IF IsNull(v) THEN "null"
    ELSE IF IsNum(v) THEN NumStr(v.num)
    ELSE IF IsStr(v) THEN "\"" \o v.str \o "\""
    ELSE IF IsList(v) THEN "[" \o DumpsItems(v.list) \o "]"
    ELSE "{" \o DumpsMembers(v.obj) \o "}"
DumpsItems(xs) ==
    IF xs = <<>> THEN ""
    ELSE IF Len(xs) = 1 THEN Dumps(xs[1])
    ELSE Dumps(xs[1]) \o ", " \o DumpsItems(Tail(xs))
DumpsMembers(ms) ==
    IF ms = <<>> THEN ""
    ELSE "\"" \o ms[1][1] \o "\": " \o Dumps(ms[1][2])
         \o (IF Len(ms) = 1 THEN "" ELSE ", " \o DumpsMembers(Tail(ms)))

\* what a call returns or raises
Ok(v) == [ok |-> v]
Raise(e) == [raise |-> e]
IsOk(r) == DOMAIN r = {"ok"}

\* json.loads(text) over the JSON values of `universe`: the value whose text,
\* white space around it apart, is `text`; JSONDecodeError when there is none
json_loads(text, universe) ==
    IF \E v \in universe : Dumps(v) = Strip(text)
    THEN Ok(CHOOSE v \in universe : Dumps(v) = Strip(text))
    ELSE Raise("JSONDecodeError")

(***************************************************************************)
(* pydantic validation of src/src/models.py                                *)
(***************************************************************************)

\* List[str]
IsStrList(v) == IsList(v) /\ \A i \in 1..Len(v.list) : IsStr(v.list[i])

TechStackFields == <<"languages", "frameworks", "libraries", "tools", "databases">>

\* TechnologyStack(**kw): kw must be a mapping, every field is required
TechnologyStack(kw) ==
    IF ~IsObj(kw) THEN Raise("TypeError")
    ELSE IF \E i \in 1..Len(TechStackFields) :
                \/ ~HasKey(kw, TechStackFields[i])
                \/ ~IsStrList(Get(kw, TechStackFields[i], JNull))
         THEN Raise("ValidationError")
    ELSE Ok([f \in {TechStackFields[i] : i \in 1..Len(TechStackFields)} |->
                [i \in 1..Len(Get(kw, f, JNull).list) |-> Get(kw, f, JNull).list[i].str]])

InsightStrFields == {"category", "severity", "description", "suggestion"}

\* CodeInsight(**kw): the Optional fields have no default, so they are
\* required too, and may be null
CodeInsight(kw) ==
    IF ~IsObj(kw) THEN Raise("TypeError")
    ELSE IF \/ \E f \in InsightStrFields : ~HasKey(kw, f) \/ ~IsStr(Get(kw, f, JNull))
            \/ ~HasKey(kw, "file_path")
            \/ ~(IsStr(Get(kw, "file_path", JNull)) \/ IsNull(Get(kw, "file_path", JNull)))
            \/ ~HasKey(kw, "line_number")
            \/ ~IsNull(Get(kw, "line_number", JNull))
         THEN Raise("ValidationError")
    ELSE Ok(kw)

\* RepositoryAnalysis(...): summary is a str, the scores are floats, the
\* recommendations a List[str]
RepositoryAnalysis(url, summary, tech_stack, insights, documentation_score, code_quality_score, maintainability_score, trending_comparisons, recommendations) ==
    IF \/ ~IsStr(summary)
       \/ ~IsNum(documentation_score)
       \/ ~IsNum(code_quality_score)
       \/ ~IsNum(maintainability_score)
       \/ ~IsStrList(trending_comparisons)
       \/ ~IsStrList(recommendations)
    THEN Raise("ValidationError")
    ELSE Ok([repo_url |-> url,
             summary |-> summary.str,
             tech_stack |-> tech_stack,
             insights |-> insights,
             documentation_score |-> documentation_score.num,
             code_quality_score |-> code_quality_score.num,
             maintainability_score |-> maintainability_score.num,
             trending_comparisons |->
                [i \in 1..Len(trending_comparisons.list) |-> trending_comparisons.list[i].str],
             recommendations |->
                [i \in 1..Len(recommendations.list) |-> recommendations.list[i].str]])

(***************************************************************************)
(* OpenAIAnalyzer and OllamaAnalyzer                                       *)
(***************************************************************************)

\* config/settings.py, scaled down: the defaults are 5000 and 10
max_file_content_chars == 16
max_analysis_files == 2

Analyzers == {"openai", "ollama"}

\* a provider's answer to a request: the request raised, or a text came back
Failed(e) == [error |-> e]
Text(t) == [text |-> t]
IsFailed(reply) == DOMAIN reply = {"error"}

\* SummaryOf with a failed request reported as for a small file
SummaryOfFailedAsSmall(f, reply) ==
    IF Len(f.content) > max_file_content_chars /\ ~IsFailed(reply)
    THEN f.path \o ": " \o Strip(reply.text)
    ELSE f.path \o ": " \o f.language \o " file (" \o ToStr(f.size) \o " bytes)"

\* summarize_large_files: the entry appended for file f given the reply
SummaryOf(f, reply) ==
    IF Len(f.content) > max_file_content_chars
    THEN IF IsFailed(reply)
         THEN f.path \o ": Large " \o f.language \o " file (" \o ToStr(f.size) \o " bytes)"
         ELSE f.path \o ": " \o Strip(reply.text)
    ELSE f.path \o ": " \o f.language \o " file (" \o ToStr(f.size) \o " bytes)"

EmptyTechStack ==
    JObj(<< <<"languages", JList(<<>>)>>, <<"frameworks", JList(<<>>)>>,
            <<"libraries", JList(<<>>)>>, <<"tools", JList(<<>>)>>,
            <<"databases", JList(<<>>)>> >>)

\* the object of the `except` branch of stage 1
Stage1Default(an) ==
    IF an = "openai"
    THEN JObj(<< <<"summary", JStr("Repository analysis")>>,
                 <<"primary_tech", JList(<<>>)>>,
                 <<"architecture_notes", JStr("")>> >>)
    ELSE JObj(<< <<"summary", JStr("Repository analysis")>>,
                 <<"primary_tech", JList(<<>>)>> >>)

\* Stage2Default with the scores _create_analysis_object defaults to
Stage2DefaultZeroScores ==
    JObj(<< <<"tech_stack", EmptyTechStack>>,
            <<"insights", JList(<<>>)>>,
            <<"documentation_score", JNum(0)>>,
            <<"code_quality_score", JNum(0)>>,
            <<"maintainability_score", JNum(0)>>,
            <<"recommendations", JList(<<>>)>> >>)

\* the object of the `except` branch of stage 2
Stage2Default ==
    JObj(<< <<"tech_stack", EmptyTechStack>>,
            <<"insights", JList(<<>>)>>,
            <<"documentation_score", JNum(50)>>,
            <<"code_quality_score", JNum(50)>>,
            <<"maintainability_score", JNum(50)>>,
            <<"recommendations", JList(<<>>)>> >>)

\* the try/except around a stage's request: the parsed reply, or the default
\* (OllamaAnalyzer._make_request strips the text it returns)
StageData(an, reply, universe, default) ==
    IF IsFailed(reply) THEN default
    ELSE LET text == IF an = "ollama" THEN Strip(reply.text) ELSE reply.text
             parsed == json_loads(text, universe)
         IN  IF IsOk(parsed) THEN parsed.ok ELSE default

\* ', '.join(v) succeeds: v is iterable and yields only str
IsJoinable(v) == IsStrList(v) \/ IsStr(v) \/ IsObj(v)

\* the reads of stage1_data that build the stage 2 prompt
Stage1Reads(an, s1) ==
    IF ~IsObj(s1) THEN Raise("AttributeError")
    ELSE IF an = "openai" /\ ~IsJoinable(Get(s1, "primary_tech", JList(<<>>)))
         THEN Raise("TypeError")
    ELSE Ok(Get(s1, "summary", JStr("")))

\* the content of file f put into the stage 2 prompt
PromptContent(f) ==
    IF f.file_type = "source_code" THEN extract_key_content(f)
    ELSE Take(f.content, max_file_content_chars)

\* the elements a `for` over the JSON value v goes through
Iterate(v) ==
    IF IsList(v) THEN Ok(v.list)
    ELSE IF IsStr(v) THEN Ok([i \in 1..Len(v.str) |-> JStr(SubSeq(v.str, i, i))])
    ELSE IF IsObj(v) THEN Ok([i \in 1..Len(v.obj) |-> JStr(v.obj[i][1])])
    ELSE Raise("TypeError")

\* [CodeInsight(**x) for x in items]: the list, or the first exception
Insights(items) ==
    IF \E i \in 1..Len(items) : ~IsOk(CodeInsight(items[i]))
    THEN CodeInsight(items[CHOOSE i \in 1..Len(items) :
                              /\ ~IsOk(CodeInsight(items[i]))
                              /\ \A j \in 1..(i - 1) : IsOk(CodeInsight(items[j]))])
    ELSE Ok([i \in 1..Len(items) |-> CodeInsight(items[i]).ok])

\* the elements of xs that are dicts
RECURSIVE OnlyDicts(_)
OnlyDicts(xs) ==
    IF xs = <<>> THEN <<>>
    ELSE (IF IsObj(Head(xs)) THEN <<Head(xs)>> ELSE <<>>) \o OnlyDicts(Tail(xs))

\* OpenAIAnalyzer._create_analysis_object
create_analysis_object(data, url) ==
    LET tech_stack == TechnologyStack(Get(data, "tech_stack", JObj(<<>>)))
        items == Iterate(Get(data, "insights", JList(<<>>)))
        insights == IF IsOk(items) THEN Insights(items.ok) ELSE items
    IN  IF ~IsOk(tech_stack) THEN tech_stack
        ELSE IF ~IsOk(insights) THEN insights
        ELSE RepositoryAnalysis(url,
                Get(data, "summary", JStr("")),
                tech_stack.ok, insights.ok,
                Get(data, "documentation_score", JNum(0)),
                Get(data, "code_quality_score", JNum(0)),
                Get(data, "maintainability_score", JNum(0)),
                Get(data, "trending_comparisons", JList(<<>>)),
                Get(data, "recommendations", JList(<<>>)))

\* combined_data with the summary read from architecture_notes
CombinedDataFromNotes(s1, s2) ==
    JObj(<< <<"summary", Get(s1, "architecture_notes", JStr(""))>>,
            <<"tech_stack", Get(s2, "tech_stack", JObj(<<>>))>>,
            <<"insights", Get(s2, "insights", JList(<<>>))>>,
            <<"documentation_score", Get(s2, "documentation_score", JNum(50))>>,
            <<"code_quality_score", Get(s2, "code_quality_score", JNum(50))>>,
            <<"maintainability_score", Get(s2, "maintainability_score", JNum(50))>>,
            <<"trending_comparisons", JList(<<>>)>>,
            <<"recommendations", Get(s2, "recommendations", JList(<<>>))>> >>)

\* OpenAIAnalyzer.analyze_repository: combined_data
CombinedData(s1, s2) ==
    JObj(<< <<"summary", Get(s1, "summary", JStr(""))>>,
            <<"tech_stack", Get(s2, "tech_stack", JObj(<<>>))>>,
            <<"insights", Get(s2, "insights", JList(<<>>))>>,
            <<"documentation_score", Get(s2, "documentation_score", JNum(50))>>,
            <<"code_quality_score", Get(s2, "code_quality_score", JNum(50))>>,
            <<"maintainability_score", Get(s2, "maintainability_score", JNum(50))>>,
            <<"trending_comparisons", JList(<<>>)>>,
            <<"recommendations", Get(s2, "recommendations", JList(<<>>))>> >>)

\* OpenAIAnalyzer.analyze_repository from "Combine results" on
OpenAICombine(s1, s2, url) ==
    IF ~IsObj(s1) \/ ~IsObj(s2) THEN Raise("AttributeError")
    ELSE create_analysis_object(CombinedData(s1, s2), url)

\* OllamaAnalyzer.analyze_repository from "Create analysis object" on
OllamaCreate(s1, s2, url) ==
    IF ~IsObj(s2) THEN Raise("AttributeError")
    ELSE LET tech_stack == TechnologyStack(Get(s2, "tech_stack", JObj(<<>>)))
             items == Iterate(Get(s2, "insights", JList(<<>>)))
             insights == IF IsOk(items) THEN Insights(OnlyDicts(items.ok)) ELSE items
         IN  IF ~IsOk(tech_stack) THEN tech_stack
             ELSE IF ~IsOk(insights) THEN insights
             ELSE IF ~IsObj(s1) THEN Raise("AttributeError")
             ELSE RepositoryAnalysis(url,
                     Get(s1, "summary", JStr("")),
                     tech_stack.ok, insights.ok,
                     Get(s2, "documentation_score", JNum(50)),
                     Get(s2, "code_quality_score", JNum(50)),
                     Get(s2, "maintainability_score", JNum(50)),
                     JList(<<>>),
                     Get(s2, "recommendations", JList(<<>>)))

(***************************************************************************)
(* Idle values of the variables an operation does not use                  *)
(***************************************************************************)

SelectIdle  == max_files = 0 /\ important_files = <<>>
ExtractIdle ==
    /\ file = NoValue /\ lines = <<>> /\ line_no = 0
    /\ meaningful_lines = <<>> /\ key_content = NoValue
WalkIdle    == repo_path = <<>> /\ max_file_size = 0 /\ tree = {} /\ visited = {}
LlmIdle     ==
    /\ analyzer = "none" /\ repo_url = "" /\ summaries = <<>> /\ requests = <<>>
    /\ exception = ""     /\ stage1_reply = NoValue /\ stage2_reply = NoValue
    /\ stage1_data = NoValue /\ stage2_data = NoValue
    /\ detailed_context = <<>> /\ result = NoValue
RepoIdle    == llm_provider = "openai" /\ provider_arg = <<>> /\ temp_dir = "none"

\* the sequences of at most n elements of S
SeqsUpTo(S, n) == UNION {[1..k -> S] : k \in 0..n}

(***************************************************************************)
(* Specification of one call of select_important_files                     *)
(***************************************************************************)

MaxFiles == 3

SelectPool ==
    { CodeFile("main.py", "print(1)", "python", 1200, "source_code"),
      CodeFile("tests/test_app.py", "assert 1", "python", 300, "test"),
      CodeFile("config/app.json", "{}", "json", 10, "configuration"),
      CodeFile("src/core/util.py", "x = 1", "python", 2000, "source_code"),
      CodeFile("README.md", "# doc", "markdown", 500, "documentation"),
      CodeFile("docs/guide/intro.txt", "intro", "text", 1500, "documentation") }

InitSelect ==
    /\ pc = "select_important_files"
    /\ code_files \in SeqsUpTo(SelectPool, MaxFiles)
    /\ max_files \in 0..(MaxFiles + 1)
    /\ important_files = <<>>
    /\ ExtractIdle /\ WalkIdle /\ LlmIdle
    /\ RepoIdle

SelectImportantFiles ==
    /\ pc = "select_important_files"
    /\ important_files' = select_important_files(code_files, max_files)
    /\ pc' = "selected"
    /\ UNCHANGED <<code_files, max_files, extractVars, walkVars, llmVars, repoVars>>

NextSelect == SelectImportantFiles

SpecSelect == InitSelect /\ [][NextSelect]_vars

\* how often x occurs in the list xs
Occurrences(xs, x) == Cardinality({i \in 1..Len(xs) : xs[i] = x})

Min(a, b) == IF a < b THEN a ELSE b

\* C5: for every input list and every max_files >= 0 the list returned by
\* select_important_files has exactly min(len(code_files), max_files)
\* elements, each returned file is an element of the input and is returned
\* no more often than it occurs there, and an empty input gives an empty
\* result.
C5_SelectBoundedSubset ==
    pc = "selected" =>
        /\ Len(important_files) = Min(Len(code_files), max_files)
        /\ \A i \in 1..Len(important_files) :
              /\ \E j \in 1..Len(code_files) : code_files[j] = important_files[i]
              /\ Occurrences(important_files, important_files[i])
                    <= Occurrences(code_files, important_files[i])
        /\ (code_files = <<>> => important_files = <<>>)

\* a call that had to leave files out
C5_Witness ==
    /\ pc = "selected"
    /\ max_files > 0
    /\ Len(code_files) > max_files
    /\ Len(important_files) = max_files

\* a is a subsequence of b
RECURSIVE IsSubsequence(_, _)
IsSubsequence(a, b) ==
    IF a = <<>> THEN TRUE
    ELSE IF b = <<>> THEN FALSE
    ELSE IF Head(a) = Head(b) THEN IsSubsequence(Tail(a), Tail(b))
    ELSE IsSubsequence(a, Tail(b))

\* the files of xs whose priority score is s, in the order of xs
RECURSIVE WithScore(_, _)
WithScore(xs, s) ==
    IF xs = <<>> THEN <<>>
    ELSE (IF get_priority_score(Head(xs)) = s THEN <<Head(xs)>> ELSE <<>>)
         \o WithScore(Tail(xs), s)

\* C6: the result of select_important_files is in non-increasing order of
\* priority score, no file left out of it has a strictly higher score than
\* a file in it, and files of equal score keep their relative order of the
\* input list.
C6_SelectHighestRanked ==
    pc = "selected" =>
        /\ \A i \in 1..Len(important_files) : \A j \in 1..Len(important_files) :
              i < j => get_priority_score(important_files[i])
                         >= get_priority_score(important_files[j])
        /\ \A k \in 1..Len(code_files) :
              Occurrences(important_files, code_files[k])
                    < Occurrences(code_files, code_files[k])
              => \A i \in 1..Len(important_files) :
                    get_priority_score(code_files[k])
                        <= get_priority_score(important_files[i])
        /\ \A i \in 1..Len(important_files) :
              LET s == get_priority_score(important_files[i])
              IN  IsSubsequence(WithScore(important_files, s), WithScore(code_files, s))

\* a call that reordered its input, returned two different files of equal
\* score and left a file out
C6_Witness ==
    /\ pc = "selected"
    /\ Len(important_files) < Len(code_files)
    /\ important_files # Take(code_files, max_files)
    /\ \E i \in 1..Len(important_files) : \E j \in 1..Len(important_files) :
          /\ i < j
          /\ important_files[i] # important_files[j]
          /\ get_priority_score(important_files[i])
                = get_priority_score(important_files[j])

(***************************************************************************)
(* Specification of one call of extract_key_content                        *)
(***************************************************************************)

MaxHeadLines == 1

\* n different lines of code
Filler(n) == [i \in 1..n |-> "  v" \o ToStr(i) \o " = " \o ToStr(i)]

ExtractHeadLines ==
    { "", "   ", "# note", "  // note", "/* note", " * note", "*/", "<!-- note -->",
      "import os", "from a import b", "  require('a')", "const a = require('b')",
      "import{a} from 'b'", "import {a} from 'b'",
      "const a = 1", "important = 1", "fromage = 2", "  return x  ",
      "x = 1 # tail", "let r = require('b')" }

ExtractTailLines == { "\t", "# end", "import sys", "done()" }

ExtractContents ==
    { JoinLines(head \o Filler(n) \o tail) :
        head \in SeqsUpTo(ExtractHeadLines, MaxHeadLines),
        n \in {0, KeyLineLimit - 1, KeyLineLimit},
        tail \in {<<>>} \cup {<<t>> : t \in ExtractTailLines} }

InitExtract ==
    /\ pc = "extract_key_content"
    /\ \E content \in ExtractContents :
          file = CodeFile("src/a.py", content, "python", Len(content), "source_code")
    /\ lines = <<>> /\ line_no = 0 /\ meaningful_lines = <<>> /\ key_content = NoValue
    /\ code_files = <<>>
    /\ SelectIdle /\ WalkIdle /\ LlmIdle
    /\ RepoIdle

extractFrame == <<code_files, selectVars, walkVars, llmVars, repoVars>>

\* lines = file.content.split('\n'); meaningful_lines = []
ExtractSplit ==
    /\ pc = "extract_key_content"
    /\ lines' = SplitLines(file.content)
    /\ line_no' = 1
    /\ meaningful_lines' = <<>>
    /\ pc' = "extract_loop"
    /\ UNCHANGED <<file, key_content, extractFrame>>

\* a loop iteration ended by one of the three `continue`
ExtractSkipLine ==
    /\ pc = "extract_loop"
    /\ line_no <= Len(lines)
    /\ IsSkippedLine(lines[line_no])
    /\ line_no' = line_no + 1
    /\ UNCHANGED <<pc, file, lines, meaningful_lines, key_content, extractFrame>>

\* a loop iteration that appends the line, and breaks at the limit
ExtractKeepLine ==
    /\ pc = "extract_loop"
    /\ line_no <= Len(lines)
    /\ ~IsSkippedLine(lines[line_no])
    /\ meaningful_lines' = Append(meaningful_lines, lines[line_no])
    /\ line_no' = line_no + 1
    /\ pc' = IF Len(meaningful_lines') >= KeyLineLimit THEN "extract_return"
             ELSE "extract_loop"
    /\ UNCHANGED <<file, lines, key_content, extractFrame>>

\* return '\n'.join(meaningful_lines), after the break or the last line
ExtractReturn ==
    /\ \/ pc = "extract_return"
       \/ pc = "extract_loop" /\ line_no > Len(lines)
    /\ key_content' = JoinLines(meaningful_lines)
    /\ pc' = "extracted"
    /\ UNCHANGED <<file, lines, line_no, meaningful_lines, extractFrame>>

NextExtract == ExtractSplit \/ ExtractSkipLine \/ ExtractKeepLine \/ ExtractReturn

SpecExtract == InitExtract /\ [][NextExtract]_vars

\* the lines of a returned text
LinesOf(text) == IF text = "" THEN <<>> ELSE SplitLines(text)

\* the stripped text of a line starts with one of the prefixes
StrippedStartsWithAny(line, prefixes) ==
    \E p \in prefixes : StartsWith(Strip(line), p)

C9_IsBlank(line) == Strip(line) = ""

C9_IsComment(line) ==
    StrippedStartsWithAny(line, {"#", "//", "/*", "*", "*/", "<!--"})

C9_IsImport(line) ==
    \/ StrippedStartsWithAny(line, {"import ", "from ", "require(", "import{", "import {"})
    \/ StrippedStartsWithAny(line, {"const "}) /\ Contains(Strip(line), "require(")

C9_IsMeaningful(line) == ~C9_IsBlank(line) /\ ~C9_IsComment(line) /\ ~C9_IsImport(line)

\* the meaningful lines of ls, in order
RECURSIVE C9_Meaningful(_)
C9_Meaningful(ls) ==
    IF ls = <<>> THEN <<>>
    ELSE (IF C9_IsMeaningful(Head(ls)) THEN <<Head(ls)>> ELSE <<>>)
         \o C9_Meaningful(Tail(ls))

\* C9: extract_key_content returns at most 50 lines, which are the first
\* meaningful lines of file.content, in order and unmodified; none of them
\* is blank, starts (stripped) with a comment marker or is an import/require
\* line, and every line before the cut-off that is none of these is kept.
C9_ExtractKeyContent ==
    pc = "extracted" =>
        LET out == LinesOf(key_content)
            inp == SplitLines(file.content)
        IN  /\ Len(out) <= 50
            /\ IsSubsequence(out, inp)
            /\ \A i \in 1..Len(out) : C9_IsMeaningful(out[i])
            /\ out = Take(C9_Meaningful(inp), 50)

\* a call on a file with more than 50 meaningful lines and with blank,
\* comment and import lines among the first ones
C9_Witness ==
    /\ pc = "extracted"
    /\ Len(LinesOf(key_content)) = 50
    /\ Len(C9_Meaningful(SplitLines(file.content))) > 50
    /\ \E i \in 1..3 : ~C9_IsMeaningful(SplitLines(file.content)[i])

(***************************************************************************)
(* Specification of one call of analyze_local_repo                         *)
(***************************************************************************)

MaxTreeEntries == 3
DefaultMaxFileSize == 100000
SmallMaxFileSize == 64

\* a path of the tree: its parts below repo_path, whether it is a regular
\* file, its size on disk, whether open() succeeds, and its text
Entry(parts, is_file, st_size, readable, content) ==
    [parts |-> parts, is_file |-> is_file, st_size |-> st_size,
     readable |-> readable, content |-> content]

TreePool ==
    { Entry(<<"main.py">>, TRUE, 120, TRUE, "import sys\nprint(sys.argv)"),
      Entry(<<"src", "test_utils.py">>, TRUE, 64, TRUE, "assert 1"),
      Entry(<<"docs", "API_SPEC.md">>, TRUE, 30, TRUE, "# API"),
      Entry(<<"tests", "conf.toml">>, TRUE, 12, TRUE, "a = 1"),
      Entry(<<"node_modules", "lib", "index.js">>, TRUE, 40, TRUE, "x()"),
      Entry(<<"src", "build", "out.txt">>, TRUE, 10, TRUE, "out"),
      Entry(<<"data.json">>, TRUE, DefaultMaxFileSize, TRUE, "{}"),
      Entry(<<"dump.json">>, TRUE, DefaultMaxFileSize + 1, TRUE, "[]"),
      Entry(<<"secret.yaml">>, TRUE, 20, FALSE, ""),
      Entry(<<"plugins.rb">>, FALSE, 0, FALSE, ""),
      Entry(<<"notes.TXT">>, TRUE, 5, TRUE, "note"),
      Entry(<<".json">>, TRUE, 2, TRUE, "{}") }

RepoPaths ==
    { <<"/", "tmp", "tmpk3x9">>,
      <<"/", "home", "dev", "build", "repo">> }

InitWalk ==
    /\ pc = "walk_loop"
    /\ repo_path \in RepoPaths
    /\ max_file_size \in {DefaultMaxFileSize, SmallMaxFileSize}
    /\ tree \in {t \in SUBSET TreePool : Cardinality(t) <= MaxTreeEntries}
    /\ visited = {}
    /\ code_files = <<>>
    /\ SelectIdle /\ ExtractIdle /\ LlmIdle
    /\ RepoIdle

walkFrame == <<selectVars, extractVars, llmVars, repoVars>>

\* an iteration on a path the filter rejects
WalkSkip ==
    /\ pc = "walk_loop"
    /\ \E entry \in tree \ visited :
          /\ ~PassesFilter(repo_path, entry, max_file_size)
          /\ visited' = visited \cup {entry}
    /\ UNCHANGED <<pc, code_files, repo_path, max_file_size, tree, walkFrame>>

\* an iteration on a path that passes the filter and is read
WalkAppend ==
    /\ pc = "walk_loop"
    /\ \E entry \in tree \ visited :
          /\ PassesFilter(repo_path, entry, max_file_size)
          /\ entry.readable
          /\ code_files' = Append(code_files, MakeCodeFile(entry))
          /\ visited' = visited \cup {entry}
    /\ UNCHANGED <<pc, repo_path, max_file_size, tree, walkFrame>>

\* an iteration on a path that passes the filter and whose open() raises
WalkReadError ==
    /\ pc = "walk_loop"
    /\ \E entry \in tree \ visited :
          /\ PassesFilter(repo_path, entry, max_file_size)
          /\ ~entry.readable
          /\ visited' = visited \cup {entry}
    /\ UNCHANGED <<pc, code_files, repo_path, max_file_size, tree, walkFrame>>

\* return code_files, once rglob is exhausted
WalkReturn ==
    /\ pc = "walk_loop"
    /\ visited = tree
    /\ pc' = "walked"
    /\ UNCHANGED <<code_files, walkVars, walkFrame>>

NextWalk == WalkSkip \/ WalkAppend \/ WalkReadError \/ WalkReturn

SpecWalk == InitWalk /\ [][NextWalk]_vars

\* the directories of an entry, below repo_path
DirsOf(entry) == SubSeq(entry.parts, 1, Len(entry.parts) - 1)

\* the three filter rules of C7 for a path of the tree
C7_SatisfiesRules(entry) ==
    /\ Suffix(Name(entry.parts)) \in DOMAIN extension_map
    /\ entry.st_size <= max_file_size
    /\ \A i \in 1..Len(DirsOf(entry)) : DirsOf(entry)[i] \notin skip_dirs

\* C7: every CodeFile analyze_local_repo returns is a regular file of the
\* tree with a mapped extension, a size on disk of at most max_file_size
\* and no ignored directory on its path; and every readable regular file
\* of the tree that satisfies the three rules is returned exactly once,
\* with its path relative to repo_path.
C7_FilterRules ==
    pc = "walked" =>
        /\ \A i \in 1..Len(code_files) :
              \E entry \in tree :
                 /\ PathStr(entry.parts) = code_files[i].path
                 /\ entry.is_file
                 /\ C7_SatisfiesRules(entry)
        /\ \A entry \in tree :
              (entry.is_file /\ entry.readable /\ C7_SatisfiesRules(entry))
              => Cardinality({i \in 1..Len(code_files) :
                                 code_files[i].path = PathStr(entry.parts)}) = 1

\* the last component of a relative path string
RECURSIVE BaseName(_)
BaseName(path) ==
    IF Contains(path, "/") THEN BaseName(Drop(path, 2)) ELSE path

\* C8: each returned file carries the language and the category the
\* extension map gives for its extension, except that its category is test
\* exactly when its file name, compared case-insensitively, contains 'test'
\* or 'spec'; the language is never changed by the test rule and the
\* category asset is never assigned.
C8_Tags ==
    pc = "walked" =>
        \A i \in 1..Len(code_files) :
            LET cf == code_files[i]
                name == BaseName(cf.path)
                ext == Suffix(name)
                isTest == \E w \in {"test", "spec"} : Contains(Lower(name), w)
            IN  /\ ext \in DOMAIN extension_map
                /\ cf.language = extension_map[ext][1]
                /\ (cf.file_type = "test") <=> isTest
                /\ ~isTest => cf.file_type = extension_map[ext][2]
                /\ cf.file_type # "asset"

\* a walk that returned a file tagged test whose name has 'SPEC' in upper
\* case, and a file that kept the category of its extension
C8_Witness ==
    /\ pc = "walked"
    /\ \E i \in 1..Len(code_files) :
          /\ code_files[i].file_type = "test"
          /\ code_files[i].language = "markdown"
          /\ ~Contains(code_files[i].path, "spec")
          /\ ~Contains(code_files[i].path, "test")
    /\ \E i \in 1..Len(code_files) : code_files[i].file_type = "configuration"

(***************************************************************************)
(* Specification of one call of analyze_repository of either analyzer      *)
(***************************************************************************)

MaxCodeFiles == 2

\* a CodeFile as analyze_local_repo builds it: size is len(content)
ReadFile(path, content, language, file_type) ==
    CodeFile(path, content, language, Len(content), file_type)

LlmPool ==
    { ReadFile("main.py", "import os\n# entry\nprint(os.getcwd())", "python", "source_code"),
      ReadFile("src/core/engine.py", "def run(items):\n    return [step(i) for i in items]",
               "python", "source_code"),
      ReadFile("README.md", "# Tool\nA command line tool.", "markdown", "documentation"),
      ReadFile("cfg.toml", "debug = true", "toml", "configuration") }

RepoUrls == {"https://github.com/acme/tool"}

S1Full ==
    JObj(<< <<"summary", JStr("A CLI tool")>>,
            <<"primary_tech", JList(<<JStr("python")>>)>>,
            <<"architecture_notes", JStr("layered")>> >>)
S1NoTech == JObj(<< <<"summary", JStr("A web app")>> >>)
S1NoSummary == JObj(<< <<"primary_tech", JList(<<JStr("python"), JStr("typer")>>)>> >>)
S1Empty == JObj(<<>>)
S1List == JList(<<JStr("python")>>)
S1NullTech == JObj(<< <<"summary", JStr("A library")>>, <<"primary_tech", JNull>> >>)
S1NullSummary == JObj(<< <<"summary", JNull>> >>)

Stage1Values == {S1Full, S1NoTech, S1NoSummary, S1Empty, S1List, S1NullTech, S1NullSummary}

Insight1 ==
    JObj(<< <<"category", JStr("improvement")>>, <<"severity", JStr("medium")>>,
            <<"description", JStr("no tests")>>, <<"file_path", JStr("main.py")>>,
            <<"line_number", JNull>>, <<"suggestion", JStr("add tests")>> >>)
InsightShort ==
    JObj(<< <<"category", JStr("bug")>>, <<"severity", JStr("high")>>,
            <<"description", JStr("crash")>>, <<"suggestion", JStr("guard")>> >>)
TechPy ==
    JObj(<< <<"languages", JList(<<JStr("python")>>)>>, <<"frameworks", JList(<<>>)>>,
            <<"libraries", JList(<<JStr("typer")>>)>>, <<"tools", JList(<<>>)>>,
            <<"databases", JList(<<>>)>> >>)
S2Full ==
    JObj(<< <<"tech_stack", TechPy>>, <<"insights", JList(<<Insight1>>)>>,
            <<"documentation_score", JNum(75)>>, <<"code_quality_score", JNum(85)>>,
            <<"maintainability_score", JNum(80)>>,
            <<"recommendations", JList(<<JStr("add tests")>>)>> >>)
S2OnlyTech == JObj(<< <<"tech_stack", TechPy>> >>)
S2Empty == JObj(<<>>)
S2PartialTech ==
    JObj(<< <<"tech_stack", JObj(<< <<"languages", JList(<<JStr("python")>>)>> >>)>>,
            <<"insights", JList(<<>>)>> >>)
S2StrInsight ==
    JObj(<< <<"tech_stack", TechPy>>,
            <<"insights", JList(<<JStr("refactor"), Insight1>>)>>,
            <<"documentation_score", JNum(60)>> >>)
S2ShortInsight ==
    JObj(<< <<"tech_stack", TechPy>>, <<"insights", JList(<<InsightShort>>)>> >>)
S2List == JList(<<>>)
S2NullScore == JObj(<< <<"tech_stack", TechPy>>, <<"documentation_score", JNull>> >>)
S2NullTech == JObj(<< <<"tech_stack", JNull>> >>)

Stage2Values ==
    {S2Full, S2OnlyTech, S2Empty, S2PartialTech, S2StrInsight, S2ShortInsight,
     S2List, S2NullScore, S2NullTech}

\* the JSON values json.loads is computed over
JsonValues == Stage1Values \cup Stage2Values

SummaryReplies == {Failed("RateLimitError"), Text(" Does one thing. ")}

Stage1Replies ==
    {Failed("APIConnectionError"), Text("Sure! Here is the overview."),
     Text("Overview:\n{}"), Text("  " \o Dumps(S1Full) \o "\n")}
    \cup {Text(Dumps(v)) : v \in Stage1Values}

Stage2Replies ==
    {Failed("Timeout"), Text("I cannot analyze this repository.")}
    \cup {Text(Dumps(v)) : v \in Stage2Values}

Init ==
    /\ pc = "summarize"
    /\ analyzer \in Analyzers
    /\ code_files \in SeqsUpTo(LlmPool, MaxCodeFiles)
    /\ repo_url \in RepoUrls
    /\ summaries = <<>> /\ requests = <<>>
    /\ stage1_reply = NoValue /\ stage2_reply = NoValue
    /\ stage1_data = NoValue /\ stage2_data = NoValue
    /\ detailed_context = <<>> /\ result = NoValue /\ exception = ""
    /\ SelectIdle /\ ExtractIdle /\ WalkIdle /\ RepoIdle

llmFrame == <<code_files, max_files, extractVars, walkVars, repoVars>>

\* summarize_large_files: an iteration on a file of at most
\* max_file_content_chars characters
SummarizeSmallFile ==
    /\ pc = "summarize"
    /\ Len(summaries) < Len(code_files)
    /\ LET f == code_files[Len(summaries) + 1]
       IN  /\ Len(f.content) <= max_file_content_chars
           /\ summaries' = Append(summaries, SummaryOf(f, NoValue))
    /\ UNCHANGED <<pc, analyzer, repo_url, requests, stage1_reply, stage2_reply,
                   stage1_data, stage2_data, detailed_context, result, exception,
                   important_files, llmFrame>>

\* summarize_large_files: an iteration on a larger file, with its request
SummarizeLargeFile ==
    /\ pc = "summarize"
    /\ Len(summaries) < Len(code_files)
    /\ LET f == code_files[Len(summaries) + 1]
       IN  /\ Len(f.content) > max_file_content_chars
           /\ \E reply \in SummaryReplies :
                 /\ summaries' = Append(summaries, SummaryOf(f, reply))
                 /\ requests' = Append(requests,
                       [stage |-> "summary", to |-> analyzer,
                        content |-> Take(f.content, max_file_content_chars),
                        reply |-> reply])
    /\ UNCHANGED <<pc, analyzer, repo_url, stage1_reply, stage2_reply,
                   stage1_data, stage2_data, detailed_context, result, exception,
                   important_files, llmFrame>>

\* the stage 1 request and its try/except
Stage1 ==
    /\ pc = "summarize"
    /\ Len(summaries) = Len(code_files)
    /\ \E reply \in Stage1Replies :
          /\ stage1_reply' = reply
          /\ stage1_data' = StageData(analyzer, reply, JsonValues, Stage1Default(analyzer))
    /\ requests' = Append(requests, [stage |-> "stage1", to |-> analyzer])
    /\ pc' = "prepare_stage2"
    /\ UNCHANGED <<analyzer, repo_url, summaries, stage2_reply, stage2_data,
                   detailed_context, result, exception, important_files, llmFrame>>

\* the selection of the important files and the stage 2 prompt
PrepareStage2 ==
    /\ pc = "prepare_stage2"
    /\ important_files' = select_important_files(code_files, max_analysis_files)
    /\ IF IsOk(Stage1Reads(analyzer, stage1_data))
       THEN /\ detailed_context' =
                  [i \in 1..Len(important_files') |->
                      [path |-> important_files'[i].path,
                       content |-> PromptContent(important_files'[i])]]
            /\ pc' = "stage2"
            /\ UNCHANGED exception
       ELSE /\ exception' = Stage1Reads(analyzer, stage1_data).raise
            /\ pc' = "raised"
            /\ UNCHANGED detailed_context
    /\ UNCHANGED <<analyzer, repo_url, summaries, requests, stage1_reply, stage2_reply,
                   stage1_data, stage2_data, result, llmFrame>>

\* the stage 2 request and its try/except
Stage2 ==
    /\ pc = "stage2"
    /\ \E reply \in Stage2Replies :
          /\ stage2_reply' = reply
          /\ stage2_data' = StageData(analyzer, reply, JsonValues, Stage2Default)
    /\ requests' = Append(requests,
          [stage |-> "stage2", to |-> analyzer, files |-> detailed_context])
    /\ pc' = "create"
    /\ UNCHANGED <<analyzer, repo_url, summaries, stage1_reply, stage1_data,
                   detailed_context, result, exception, important_files, llmFrame>>

\* the construction of the RepositoryAnalysis that is returned
CreateAnalysis ==
    /\ pc = "create"
    /\ LET r == IF analyzer = "openai"
                THEN OpenAICombine(stage1_data, stage2_data, repo_url)
                ELSE OllamaCreate(stage1_data, stage2_data, repo_url)
       IN  IF IsOk(r)
           THEN result' = r.ok /\ pc' = "done" /\ UNCHANGED exception
           ELSE exception' = r.raise /\ pc' = "raised" /\ UNCHANGED result
    /\ UNCHANGED <<analyzer, repo_url, summaries, requests, stage1_reply, stage2_reply,
                   stage1_data, stage2_data, detailed_context, important_files, llmFrame>>

Next ==
    \/ SummarizeSmallFile
    \/ SummarizeLargeFile
    \/ Stage1
    \/ PrepareStage2
    \/ Stage2
    \/ CreateAnalysis

Spec == Init /\ [][Next]_vars

\* the stages of the overview and detailed requests issued so far, in order
RECURSIVE StagesOf(_)
StagesOf(reqs) ==
    IF reqs = <<>> THEN <<>>
    ELSE (IF Head(reqs).stage \in {"stage1", "stage2"} THEN <<Head(reqs).stage>> ELSE <<>>)
         \o StagesOf(Tail(reqs))

Ended == pc \in {"done", "raised"}

\* C1: in every run of analyze_repository the stage 1 request is issued
\* before the stage 2 request, exactly one request of each stage is issued,
\* and the stage 2 request is issued whatever the outcome of stage 1.
C1_TwoStagesInOrder ==
    /\ StagesOf(requests) \in {<<>>, <<"stage1">>, <<"stage1", "stage2">>}
    /\ Ended => StagesOf(requests) = <<"stage1", "stage2">>

\* the reply is a request error or a text that does not parse as JSON
ReplyFailed(reply) ==
    IsFailed(reply) \/ ~\E v \in JsonValues : Dumps(v) = Strip(reply.text)

\* the JSON value a reply that parses stands for
ParsedReply(reply) == CHOOSE v \in JsonValues : Dumps(v) = Strip(reply.text)

\* C2: whatever the provider replies in stage 1 and in stage 2, the stage's
\* data is the parsed JSON or the stage's default object, and
\* analyze_repository completes by returning a RepositoryAnalysis: it never
\* ends with an exception.
C2_AlwaysReturns ==
    /\ stage1_reply # NoValue =>
          stage1_data = IF ReplyFailed(stage1_reply) THEN Stage1Default(analyzer)
                        ELSE ParsedReply(stage1_reply)
    /\ stage2_reply # NoValue =>
          stage2_data = IF ReplyFailed(stage2_reply) THEN Stage2Default
                        ELSE ParsedReply(stage2_reply)
    /\ pc # "raised"
    /\ pc = "done" => result # NoValue

\* the strings of a JSON list of strings
Strings(v) == [i \in 1..Len(v.list) |-> v.list[i].str]

\* C3: when stage 2 fails (request error or unparsable reply) the returned
\* record has five empty tech-stack lists, no insights, the three scores at
\* 0.5 and no recommendations; when stage 1 fails its summary is
\* "Repository analysis"; and a failure of one stage leaves the data of the
\* other stage in the record.
C3_Placeholders ==
    pc = "done" =>
        /\ ReplyFailed(stage2_reply) =>
              /\ \A i \in 1..Len(TechStackFields) :
                    result.tech_stack[TechStackFields[i]] = <<>>
              /\ DOMAIN result.tech_stack =
                    {"languages", "frameworks", "libraries", "tools", "databases"}
              /\ result.insights = <<>>
              /\ result.documentation_score = 50
              /\ result.code_quality_score = 50
              /\ result.maintainability_score = 50
              /\ result.recommendations = <<>>
        /\ ReplyFailed(stage1_reply) => result.summary = "Repository analysis"
        /\ (ReplyFailed(stage2_reply) /\ ~ReplyFailed(stage1_reply)) =>
              result.summary = Get(ParsedReply(stage1_reply), "summary", JStr("")).str
        /\ (ReplyFailed(stage1_reply) /\ ~ReplyFailed(stage2_reply)) =>
              LET s2 == ParsedReply(stage2_reply)
              IN  /\ \A i \in 1..Len(TechStackFields) :
                        result.tech_stack[TechStackFields[i]]
                           = Strings(Get(Get(s2, "tech_stack", JNull), TechStackFields[i], JNull))
                  /\ result.documentation_score = Get(s2, "documentation_score", JNum(50)).num
                  /\ result.code_quality_score = Get(s2, "code_quality_score", JNum(50)).num
                  /\ result.maintainability_score
                        = Get(s2, "maintainability_score", JNum(50)).num
                  /\ result.recommendations = Strings(Get(s2, "recommendations", JList(<<>>)))
                  /\ Len(result.insights) <= Len(Get(s2, "insights", JList(<<>>)).list)

\* a run that returned after the stage 2 request failed, with the summary
\* of a stage 1 reply that parsed
C3_Witness ==
    /\ pc = "done"
    /\ IsFailed(stage2_reply)
    /\ ~ReplyFailed(stage1_reply)
    /\ result.summary = "A CLI tool"
    /\ result.documentation_score = 50

\* the objects among the elements of a list
RECURSIVE C4_Objects(_)
C4_Objects(xs) ==
    IF xs = <<>> THEN <<>>
    ELSE (IF DOMAIN Head(xs) = {"obj"} THEN <<Head(xs)>> ELSE <<>>) \o C4_Objects(Tail(xs))

\* C4: the returned record has repo_url unchanged, its summary from the
\* stage 1 data, its tech_stack, insights, three scores and recommendations
\* from the stage 2 data, and an empty trending_comparisons; no other field
\* of the stage 1 data (primary_tech, architecture_notes) appears in it.
C4_MergedRecord ==
    pc = "done" =>
        /\ DOMAIN result =
              {"repo_url", "summary", "tech_stack", "insights", "documentation_score",
               "code_quality_score", "maintainability_score", "trending_comparisons",
               "recommendations"}
        /\ result.repo_url = repo_url
        /\ result.summary = Get(stage1_data, "summary", JStr("")).str
        /\ \A i \in 1..Len(TechStackFields) :
              result.tech_stack[TechStackFields[i]]
                 = Strings(Get(Get(stage2_data, "tech_stack", JNull), TechStackFields[i], JNull))
        /\ result.insights = C4_Objects(Get(stage2_data, "insights", JList(<<>>)).list)
        /\ result.documentation_score = Get(stage2_data, "documentation_score", JNum(50)).num
        /\ result.code_quality_score = Get(stage2_data, "code_quality_score", JNum(50)).num
        /\ result.maintainability_score
              = Get(stage2_data, "maintainability_score", JNum(50)).num
        /\ result.recommendations = Strings(Get(stage2_data, "recommendations", JList(<<>>)))
        /\ result.trending_comparisons = <<>>

\* a run that returned the merge of a stage 1 reply holding primary_tech and
\* architecture_notes with a full stage 2 reply
C4_Witness ==
    /\ pc = "done"
    /\ stage1_data = S1Full
    /\ stage2_data = S2Full
    /\ result.summary = "A CLI tool"
    /\ result.insights = <<Insight1>>
    /\ result.code_quality_score = 85

(***************************************************************************)
(* Specification of RepoAnalyzer: its construction and one call of its     *)
(* analyze_repository, which runs the walk and the analysis above          *)
(***************************************************************************)

Providers == {"openai", "ollama"}

\* the directory tempfile.TemporaryDirectory() creates
TempDirPath == <<"/", "tmp", "tmpk3x9">>

\* the files a clone can bring
ClonePool ==
    { e \in TreePool :
        e.parts \in { <<"main.py">>, <<"docs", "API_SPEC.md">>,
                      <<"node_modules", "lib", "index.js">>, <<"secret.yaml">> } }

MaxCloneEntries == 2

InitRepo ==
    /\ pc = "RepoAnalyzer"
    /\ llm_provider \in Providers
    /\ provider_arg \in {<<>>} \cup {<<p>> : p \in Providers}
    /\ temp_dir = "none"
    /\ repo_url \in RepoUrls
    /\ analyzer = "none"
    /\ code_files = <<>>
    /\ summaries = <<>> /\ requests = <<>>
    /\ stage1_reply = NoValue /\ stage2_reply = NoValue
    /\ stage1_data = NoValue /\ stage2_data = NoValue
    /\ detailed_context = <<>> /\ result = NoValue /\ exception = ""
    /\ SelectIdle /\ ExtractIdle /\ WalkIdle

repoFrame == <<code_files, selectVars, extractVars, analyzer, repo_url, summaries,
               requests, stage1_reply, stage2_reply, stage1_data, stage2_data,
               detailed_context, result, llm_provider, provider_arg>>

\* RepoAnalyzer(*provider_arg): __init__ takes no argument beside self, and
\* always builds an OpenAIAnalyzer
RepoConstruct ==
    /\ pc = "RepoAnalyzer"
    /\ IF provider_arg = <<>>
       THEN pc' = "analyze_repository" /\ UNCHANGED exception
       ELSE pc' = "failed" /\ exception' = "TypeError"
    /\ UNCHANGED <<temp_dir, walkVars, repoFrame>>

\* with tempfile.TemporaryDirectory() as temp_dir
RepoEnter ==
    /\ pc = "analyze_repository"
    /\ temp_dir' = "created"
    /\ pc' = "clone_repository"
    /\ UNCHANGED <<exception, walkVars, repoFrame>>

\* clone_repository: the clone succeeds and brings a tree, or raises
RepoClone ==
    /\ pc = "clone_repository"
    /\ \/ /\ tree' \in {t \in SUBSET ClonePool : Cardinality(t) <= MaxCloneEntries}
          /\ temp_dir' = "cloned"
          /\ pc' = "get_repo_info"
          /\ UNCHANGED exception
       \/ /\ exception' = "GitCommandError"
          /\ pc' = "raised"
          /\ UNCHANGED <<tree, temp_dir>>
    /\ UNCHANGED <<repo_path, max_file_size, visited, repoFrame>>

\* get_repo_info returns, or its request raises; then analyze_local_repo is
\* called on the clone with settings.max_file_size
RepoGetInfo ==
    /\ pc = "get_repo_info"
    /\ \/ /\ repo_path' = TempDirPath
          /\ max_file_size' = DefaultMaxFileSize
          /\ visited' = {}
          /\ pc' = "walk_loop"
          /\ UNCHANGED exception
       \/ /\ exception' = "ConnectionError"
          /\ pc' = "raised"
          /\ UNCHANGED <<repo_path, max_file_size, visited>>
    /\ UNCHANGED <<tree, temp_dir, repoFrame>>

\* self.openai_analyzer.analyze_repository(code_files, repo_info, repo_url)
RepoRunAnalysis ==
    /\ pc = "walked"
    /\ analyzer' = "openai"
    /\ pc' = "summarize"
    /\ UNCHANGED <<code_files, selectVars, extractVars, walkVars, repo_url, summaries,
                   requests, stage1_reply, stage2_reply, stage1_data, stage2_data,
                   detailed_context, result, exception, repoVars>>

\* RepoExit with the scratch directory removed only on a normal return
RepoExitKeepOnRaise ==
    /\ pc \in {"done", "raised"}
    /\ temp_dir' = IF pc = "done" THEN "removed" ELSE temp_dir
    /\ pc' = IF pc = "done" THEN "returned" ELSE "failed"
    /\ UNCHANGED <<exception, walkVars, repoFrame>>

\* the end of the with block: the scratch directory is removed, and the
\* result is returned or the exception goes on to the caller
RepoExit ==
    /\ pc \in {"done", "raised"}
    /\ temp_dir' = "removed"
    /\ pc' = IF pc = "done" THEN "returned" ELSE "failed"
    /\ UNCHANGED <<exception, walkVars, repoFrame>>

NextRepo ==
    \/ RepoConstruct
    \/ RepoEnter
    \/ RepoClone
    \/ RepoGetInfo
    \/ WalkSkip
    \/ WalkAppend
    \/ WalkReadError
    \/ WalkReturn
    \/ RepoRunAnalysis
    \/ SummarizeSmallFile
    \/ SummarizeLargeFile
    \/ Stage1
    \/ PrepareStage2
    \/ Stage2
    \/ CreateAnalysis
    \/ RepoExit

SpecRepo == InitRepo /\ [][NextRepo]_vars

\* the provider the configuration asks for
ConfiguredProvider == IF provider_arg # <<>> THEN provider_arg[1] ELSE llm_provider

\* C10: RepoAnalyzer sends its analysis requests to the configured provider:
\* with llm_provider 'ollama', or RepoAnalyzer('ollama'), every stage request
\* goes to the Ollama analyzer and none to OpenAI; with 'openai' every
\* request goes to the OpenAI analyzer.
C10_ConfiguredProviderUsed ==
    \A i \in 1..Len(requests) :
        requests[i].stage \in {"stage1", "stage2"} => requests[i].to = ConfiguredProvider

(***************************************************************************)
(* The two analyzers compared on the same replies                          *)
(***************************************************************************)

\* analyze_repository of analyzer an, from the replies to its two stage
\* requests to what it returns or raises
analyze_repository(an, url, reply1, reply2) ==
    LET s1 == StageData(an, reply1, JsonValues, Stage1Default(an))
        s2 == StageData(an, reply2, JsonValues, Stage2Default)
    IN  IF ~IsOk(Stage1Reads(an, s1)) THEN Stage1Reads(an, s1)
        ELSE IF an = "openai" THEN OpenAICombine(s1, s2, url)
        ELSE OllamaCreate(s1, s2, url)

\* the other analyzer
OtherAnalyzer(an) == IF an = "openai" THEN "ollama" ELSE "openai"

\* how the run ended
RunOutcome == IF pc = "done" THEN Ok(result) ELSE Raise(exception)

\* the stage 2 replies the run stands for: the one received, or any when the
\* run ended before the stage 2 request
RunStage2Replies == IF stage2_reply = NoValue THEN Stage2Replies ELSE {stage2_reply}

\* both returned equal records, or both raised
SameOutcome(a, b) == (IsOk(a) <=> IsOk(b)) /\ (IsOk(a) => a = b)

\* C11: run on the same code_files and repo_url and given the same replies
\* for stage 1 and for stage 2, OllamaAnalyzer and OpenAIAnalyzer end the
\* same way: both return equal RepositoryAnalysis records or both raise,
\* also when the insights list holds an element that is not an object.
C11_SameOutcome ==
    Ended =>
        \A reply2 \in RunStage2Replies :
            SameOutcome(RunOutcome,
                        analyze_repository(OtherAnalyzer(analyzer), repo_url,
                                           stage1_reply, reply2))

(***************************************************************************)
(* The priority score of select_important_files                            *)
(***************************************************************************)

\* the score C12 describes: the location bonus only for a path without '/'
C12_Score(f) ==
    (IF \E name \in {"main.py", "app.py", "__init__.py", "index.js", "index.ts"} :
           Contains(Lower(f.path), name)
     THEN 100 ELSE 0)
  + (IF \E ext \in {".json", ".yaml", ".yml", ".toml", ".config"} :
           Contains(Lower(f.path), ext)
     THEN 50 ELSE 0)
  + (IF ~Contains(f.path, "/") THEN 30 ELSE 0)
  + (IF f.size > 1000 THEN 20 ELSE 0)
  + (IF f.file_type = "source_code" THEN 10 ELSE 0)

\* C12: the priority score of every file select_important_files ranks is
\* the sum of the five bonuses (+100 name, +50 config extension, +30 for a
\* path without '/', +20 for size > 1000, +10 for source code), lies between
\* 0 and 210, and a file in a subdirectory never receives the +30 bonus.
C12_PriorityScore ==
    pc = "selected" =>
        \A i \in 1..Len(code_files) :
            /\ get_priority_score(code_files[i]) \in 0..210
            /\ get_priority_score(code_files[i]) = C12_Score(code_files[i])

(***************************************************************************)
(* summarize_large_files                                                   *)
(***************************************************************************)

\* the summarization requests among reqs, in order
RECURSIVE C13_SummaryRequests(_)
C13_SummaryRequests(reqs) ==
    IF reqs = <<>> THEN <<>>
    ELSE (IF Head(reqs).stage = "summary" THEN <<Head(reqs)>> ELSE <<>>)
         \o C13_SummaryRequests(Tail(reqs))

\* the indexes, in order, of the first n files whose content is longer than
\* max_file_content_chars
RECURSIVE C13_LargeFiles(_, _)
C13_LargeFiles(fs, n) ==
    IF n = 0 THEN <<>>
    ELSE C13_LargeFiles(fs, n - 1)
         \o (IF Len(fs[n].content) > max_file_content_chars THEN <<n>> ELSE <<>>)

\* the placeholder summary of a file whose summarization request failed
C13_Placeholder(f) ==
    f.path \o ": Large " \o f.language \o " file (" \o ToStr(f.size) \o " bytes)"

\* C13: summarize_large_files gives one summary per input file, in input
\* order, each starting with the file's path; a request is made exactly for
\* the files longer than max_file_content_chars, with the content cut to
\* max_file_content_chars characters; a failed request gives the placeholder
\* summary for its file and the following files are still summarized.
C13_OneSummaryPerFile ==
    LET reqs == C13_SummaryRequests(requests)
        large == C13_LargeFiles(code_files, Len(summaries))
    IN  /\ Len(summaries) <= Len(code_files)
        /\ pc # "summarize" => Len(summaries) = Len(code_files)
        /\ \A i \in 1..Len(summaries) :
              StartsWith(summaries[i], code_files[i].path \o ": ")
        /\ Len(reqs) = Len(large)
        /\ \A k \in 1..Len(reqs) :
              LET f == code_files[large[k]]
              IN  /\ Len(reqs[k].content) <= max_file_content_chars
                  /\ reqs[k].content = SubSeq(f.content, 1, max_file_content_chars)
                  /\ IsFailed(reqs[k].reply) => summaries[large[k]] = C13_Placeholder(f)
                  /\ ~IsFailed(reqs[k].reply) =>
                        summaries[large[k]] = f.path \o ": " \o Strip(reqs[k].reply.text)

\* the request for the first of two files failed, the second file is too
\* short for a request or had its request answered, and both have a summary
C13_Witness ==
    /\ pc # "summarize"
    /\ Len(code_files) = 2
    /\ Len(summaries) = 2
    /\ Len(C13_SummaryRequests(requests)) >= 1
    /\ IsFailed(C13_SummaryRequests(requests)[1].reply)
    /\ summaries[1] = C13_Placeholder(code_files[1])
    /\ summaries[2] # C13_Placeholder(code_files[2])

(***************************************************************************)
(* The files of the stage 2 prompt                                         *)
(***************************************************************************)

\* C14: the stage 2 prompt holds at most max_analysis_files files, and the
\* content inserted for each of them, source code or not, is at most
\* max_file_content_chars characters long.
C14_PromptContentLimited ==
    /\ Len(detailed_context) <= max_analysis_files
    /\ \A i \in 1..Len(detailed_context) :
          Len(detailed_context[i].content) <= max_file_content_chars
    /\ \A k \in 1..Len(requests) :
          requests[k].stage = "stage2" =>
             /\ Len(requests[k].files) <= max_analysis_files
             /\ \A i \in 1..Len(requests[k].files) :
                   Len(requests[k].files[i].content) <= max_file_content_chars

(***************************************************************************)
(* The order of the steps of RepoAnalyzer.analyze_repository               *)
(***************************************************************************)

\* the positions of a call in the order the code goes through them
C15_Steps ==
    <<"analyze_repository", "clone_repository", "get_repo_info", "walk_loop",
      "walked", "summarize", "prepare_stage2", "stage2", "create", "done">>

C15_Rank(p) == CHOOSE i \in 1..Len(C15_Steps) : C15_Steps[i] = p

\* the call has ended: it returned, or its exception reached the caller
C15_CallEnded == pc \in {"returned", "failed"} /\ provider_arg = <<>>

\* what holds of every state of a call
C15_StepsDone ==
    /\ temp_dir \in {"none", "created"} => tree = {}
    /\ repo_path # <<>> => temp_dir \in {"cloned", "removed"}
    /\ code_files # <<>> => repo_path = TempDirPath
    /\ requests # <<>> => (repo_path = TempDirPath /\ visited = tree)
    /\ exception = "GitCommandError" =>
          (requests = <<>> /\ repo_path = <<>> /\ code_files = <<>> /\ tree = {})
    /\ exception = "ConnectionError" =>
          (requests = <<>> /\ visited = {} /\ code_files = <<>>)
    /\ C15_CallEnded => temp_dir = "removed"
    /\ pc = "returned" => (result # NoValue /\ exception = "")
    /\ (pc = "failed" /\ provider_arg = <<>>) => (result = NoValue /\ exception # "")

\* what holds of every step of a call
C15_StepOrder ==
    /\ pc' # pc =>
          \/ pc' = "raised" /\ pc \in {"clone_repository", "get_repo_info",
                                        "prepare_stage2", "create"}
          \/ pc' = "failed" /\ pc \in {"RepoAnalyzer", "raised"}
          \/ pc' = "returned" /\ pc = "done"
          \/ pc' = "analyze_repository" /\ pc = "RepoAnalyzer"
          \/ /\ pc \in {C15_Steps[i] : i \in 1..Len(C15_Steps)}
             /\ pc' \in {C15_Steps[i] : i \in 1..Len(C15_Steps)}
             /\ C15_Rank(pc') = C15_Rank(pc) + 1
    /\ requests' # requests =>
          (temp_dir = "cloned" /\ exception = "" /\ visited = tree
           /\ pc \in {"summarize", "stage2"})
    /\ code_files' # code_files => (pc = "walk_loop" /\ temp_dir = "cloned" /\ requests = <<>>)
    /\ temp_dir' # temp_dir =>
          \/ temp_dir = "none" /\ temp_dir' = "created" /\ pc = "analyze_repository"
          \/ temp_dir = "created" /\ temp_dir' = "cloned" /\ pc = "clone_repository"
          \/ temp_dir' = "removed" /\ pc \in {"done", "raised"}

\* C15: RepoAnalyzer.analyze_repository goes through clone, metadata fetch,
\* file classification and LLM analysis in that order, each step starting
\* after the previous one completed; once a step raises no later step runs
\* (no LLM request after a failed clone); and when the call ends, by a
\* return or by an exception, the scratch directory has been removed.
C15_OrderedSteps == [](C15_StepsDone) /\ [][C15_StepOrder]_vars

\* a call that ended with the exception of a failed clone
C15_Witness ==
    /\ pc = "failed"
    /\ provider_arg = <<>>
    /\ exception = "GitCommandError"
    /\ temp_dir = "removed"
    /\ requests = <<>>

(***************************************************************************)
(* analyze_local_repo and the location of the repository                   *)
(***************************************************************************)

\* the files analyze_local_repo returns for the tree t placed at rp
analyze_local_repo(rp, t, limit) ==
    { MakeCodeFile(entry) : entry \in {e \in t : PassesFilter(rp, e, limit) /\ e.readable} }

\* the files returned by the walk that ran
C16_Returned == { code_files[i] : i \in 1..Len(code_files) }

\* C16: the files analyze_local_repo returns depend only on the tree (the
\* relative paths, extensions and sizes) and not on where the repository
\* is: the same tree under any other location, a parent directory named
\* like an ignored directory included, gives the same CodeFile records.
C16_LocationIndependent ==
    pc = "walked" =>
        \A rp \in RepoPaths :
            C16_Returned = analyze_local_repo(rp, tree, max_file_size)

====
